---- MODULE Spec2Model ----
(***************************************************************************)
(* Roulette: a collection that stores items with counts and retrieves an   *)
(* item by weighted random selection (modules/Roulette.js, helpers.js).    *)
(*                                                                         *)
(* JavaScript values are modelled as records [t, n, s, e]:                 *)
(*   t  the kind: "null" "undef" "bool" "num" "str" "arr" "obj" "throw"     *)
(*   n  the payload of a number, or 0/1 of a boolean                       *)
(*   s  the payload of a string ("NaN" marks the number NaN, and for       *)
(*      "throw" the name of the error raised)                              *)
(*   e  the own enumerable properties in enumeration order, each a record  *)
(*      [key, val]; an array's keys are its indices "0", "1", ...          *)
(***************************************************************************)
EXTENDS Integers, Sequences, FiniteSets, TLC

VARIABLES
    items,      \* this._items
    counts,     \* this._counts
    length,     \* this.length
    op,         \* the method called last ("new" after construction)
    arg,        \* its argument
    ret,        \* what it returned, or the error it raised
    draw,       \* the value randomInt produced in the last get (undefined otherwise)
    pItems,     \* this._items before the last call
    pCounts,    \* this._counts before the last call
    pLength,    \* this.length before the last call
    adds,       \* the items add was called with, recorded by AddOnly
    roulettes   \* the instances of the earlier classes: of the variant with the
                \* autocalibrate option, by that option; of src/roulette.js, the one

vars == <<items, counts, length, op, arg, ret, draw, pItems, pCounts, pLength,
          adds, roulettes>>

-----------------------------------------------------------------------------
(* Bounds of the model *)

MaxLen == 3         \* entries stored at once
MaxCount == 2       \* largest count an add call may produce
MaxLength == 3      \* largest value of the length field
MaxAdds == 4        \* add calls in an add-only run
MaxWeight == 3      \* largest count in a sampled collection
RnSteps == 4        \* Math.random() yields the multiples of 1 / RnSteps below 1

-----------------------------------------------------------------------------
(* JavaScript values *)

Null == [t |-> "null", n |-> 0, s |-> "", e |-> <<>>]
Undef == [t |-> "undef", n |-> 0, s |-> "", e |-> <<>>]
Num(i) == [t |-> "num", n |-> i, s |-> "", e |-> <<>>]
NaN == [t |-> "num", n |-> 0, s |-> "NaN", e |-> <<>>]
Str(x) == [t |-> "str", n |-> 0, s |-> x, e |-> <<>>]
Bool(b) == [t |-> "bool", n |-> IF b THEN 1 ELSE 0, s |-> "", e |-> <<>>]
Throw(name) == [t |-> "throw", n |-> 0, s |-> name, e |-> <<>>]
Prop(k, v) == [key |-> k, val |-> v]
Obj(props) == [t |-> "obj", n |-> 0, s |-> "", e |-> props]

IdxKey(i) == CASE i = 1 -> "0" [] i = 2 -> "1" [] i = 3 -> "2" [] OTHER -> "3"

Arr(elems) ==
    [t |-> "arr", n |-> 0, s |-> "",
     e |-> [i \in 1..Len(elems) |-> Prop(IdxKey(i), elems[i])]]

IsThrow(v) == v.t = "throw"

\* typeof(v)
typeOf(v) ==
    CASE v.t = "undef" -> "undefined"
      [] v.t = "bool" -> "boolean"
      [] v.t = "num" -> "number"
      [] v.t = "str" -> "string"
      [] OTHER -> "object"

\* Array.isArray(v)
isArray(v) == v.t = "arr"

\* v.hasOwnProperty(p), for v an array or a keyed structure
hasOwnProperty(v, p) ==
    \/ \E i \in 1..Len(v.e) : v.e[i].key = p
    \/ v.t = "arr" /\ p = "length"

\* v[p], for v an array or a keyed structure
getProp(v, p) ==
    IF \E i \in 1..Len(v.e) : v.e[i].key = p
    THEN v.e[CHOOSE i \in 1..Len(v.e) : v.e[i].key = p].val
    ELSE IF v.t = "arr" /\ p = "length" THEN Num(Len(v.e))
    ELSE Undef

-----------------------------------------------------------------------------
(* equal(a, b): the default comparison.  The result is "true", "false" or  *)
(* "TypeError" (a property of null was read).                              *)

RECURSIVE equal(_, _), equalElems(_, _, _), equalProps(_, _, _)

\* the loop of the array test, from element i on
equalElems(a, b, i) ==
    IF i > Len(a.e) THEN "true"
    ELSE LET r == equal(a.e[i].val, b.e[i].val)
         IN  IF r = "true" THEN equalElems(a, b, i + 1) ELSE r

\* the loop `for(var p in a)` of the object test, from property i on
equalProps(a, b, i) ==
    IF i > Len(a.e) THEN "true"
    ELSE LET p == a.e[i].key
         IN  IF b.t = "null" THEN "TypeError"
             ELSE IF ~hasOwnProperty(b, p) THEN "false"
             ELSE LET r == equal(a.e[i].val, getProp(b, p))
                  IN  IF r = "true" THEN equalProps(a, b, i + 1) ELSE r

\* the loop `for(var p in b)` of the object test
missedProps(a, b) ==
    IF Len(b.e) = 0 THEN "true"
    ELSE IF a.t = "null" THEN "TypeError"
    ELSE IF \E i \in 1..Len(b.e) : typeOf(getProp(a, b.e[i].key)) = "undefined"
         THEN "false"
         ELSE "true"

equal(a, b) ==
    IF a.t = "null" /\ b.t = "null" THEN "true"
    ELSE IF a.t = "undef" /\ b.t = "undef" THEN "true"
    ELSE IF typeOf(a) # typeOf(b) THEN "false"
    ELSE IF typeOf(a) \in {"boolean", "number", "string"}
         THEN IF a = NaN \/ b = NaN THEN "false"
              ELSE IF a.n = b.n /\ a.s = b.s THEN "true" ELSE "false"
    ELSE IF isArray(a)
         THEN IF ~isArray(b) THEN "false"
              ELSE IF Len(a.e) # Len(b.e) THEN "false"
              ELSE equalElems(a, b, 1)
    ELSE LET r == equalProps(a, b, 1)
         IN  IF r = "true" THEN missedProps(a, b) ELSE r

-----------------------------------------------------------------------------
(* The collection *)

\* the items the methods are called with
Items == { Num(1), Null, Obj(<<>>), Arr(<<>>), Obj(<<Prop("a", Num(1))>>) }

\* the indices at and countAt are called with
Indices == -1..MaxLen

\* this._opts.comparison
\* the predicate called with the stored item first
comparison_swapped(a, b) == equal(b, a)

comparison(a, b) == equal(a, b)

RECURSIVE indexOfFrom(_, _, _)
indexOfFrom(its, item, i) ==
    IF i > Len(its) THEN Num(-1)
    ELSE LET r == comparison(item, its[i])
         IN  IF r = "TypeError" THEN Throw("TypeError")
             ELSE IF r = "true" THEN Num(i - 1)
             ELSE indexOfFrom(its, item, i + 1)

\* indexOf with its loop started at the second entry
indexOf_skipFirst(its, item) == indexOfFrom(its, item, 2)

\* indexOf(item): the 0-based index of the first match, -1, or the error
indexOf(its, item) == indexOfFrom(its, item, 1)

Init ==
    /\ items = <<>>
    /\ counts = <<>>
    /\ length = 0
    /\ op = "new"
    /\ arg = Undef
    /\ ret = Undef
    /\ draw = Undef
    /\ pItems = <<>>
    /\ pCounts = <<>>
    /\ pLength = 0
    /\ adds = <<>>
    /\ roulettes = <<>>

\* every call records the method, its argument and the state it started from;
\* the instances of the historical variant are other objects
Call(name, a) ==
    /\ op' = name
    /\ arg' = a
    /\ pItems' = items
    /\ pCounts' = counts
    /\ pLength' = length
    /\ UNCHANGED roulettes

\* the call raised: nothing was assigned
Raised(err) ==
    /\ ret' = err
    /\ UNCHANGED <<items, counts, length>>

addCore(item) ==
    LET idx == indexOf(items, item)
    IN  /\ Call("add", item)
        /\ draw' = Undef
        /\ IF IsThrow(idx) THEN Raised(idx)
           ELSE IF idx.n < 0
           THEN /\ Len(items) < MaxLen
                /\ length < MaxLength
                /\ items' = Append(items, item)
                /\ counts' = Append(counts, 1)
                /\ length' = length + 1
                /\ ret' = Num(Len(items') - 1)
           ELSE /\ counts[idx.n + 1] < MaxCount
                /\ counts' = [counts EXCEPT ![idx.n + 1] = @ + 1]
                /\ ret' = Num(counts'[idx.n + 1])
                /\ UNCHANGED <<items, length>>

Add(item) == addCore(item) /\ UNCHANGED adds

\* a.splice(idx, 1), idx a 0-based index of a
splice(a, idx) ==
    [i \in 1..(Len(a) - 1) |-> IF i <= idx THEN a[i] ELSE a[i + 1]]

\* remove that takes the entry out once its count is zero
Remove_spliceAtZero(item) ==
    LET idx == indexOf(items, item)
    IN  /\ Call("remove", item)
        /\ draw' = Undef
        /\ UNCHANGED adds
        /\ IF IsThrow(idx) THEN Raised(idx)
           ELSE IF idx.n < 0
           THEN ret' = Num(0) /\ UNCHANGED <<items, counts, length>>
           ELSE IF counts[idx.n + 1] <= 0
           THEN ret' = Num(0) /\ UNCHANGED <<items, counts, length>>
           ELSE IF counts[idx.n + 1] = 1
           THEN /\ items' = splice(items, idx.n)
                /\ counts' = splice(counts, idx.n)
                /\ ret' = Num(0)
                /\ UNCHANGED length
           ELSE /\ counts' = [counts EXCEPT ![idx.n + 1] = @ - 1]
                /\ ret' = Num(counts'[idx.n + 1])
                /\ UNCHANGED <<items, length>>

\* remove without the test for a count of 0 and without the floor
Remove_unguarded(item) ==
    LET idx == indexOf(items, item)
    IN  /\ Call("remove", item)
        /\ draw' = Undef
        /\ UNCHANGED adds
        /\ IF IsThrow(idx) THEN Raised(idx)
           ELSE IF idx.n < 0
           THEN ret' = Num(0) /\ UNCHANGED <<items, counts, length>>
           ELSE /\ counts' = [counts EXCEPT ![idx.n + 1] = @ - 1]
                /\ ret' = Num(counts'[idx.n + 1])
                /\ UNCHANGED <<items, length>>

Remove(item) ==
    LET idx == indexOf(items, item)
    IN  /\ Call("remove", item)
        /\ draw' = Undef
        /\ UNCHANGED adds
        /\ IF IsThrow(idx) THEN Raised(idx)
           ELSE IF idx.n < 0
           THEN ret' = Num(0) /\ UNCHANGED <<items, counts, length>>
           ELSE IF counts[idx.n + 1] <= 0
           THEN ret' = Num(0) /\ UNCHANGED <<items, counts, length>>
           ELSE LET dec == counts[idx.n + 1] - 1
                    new == IF dec < 0 THEN 0 ELSE dec
                IN  /\ counts' = [counts EXCEPT ![idx.n + 1] = new]
                    /\ ret' = Num(new)
                    /\ UNCHANGED <<items, length>>

\* purge that returns 0 on success
Purge_returnsZero(item) ==
    LET idx == indexOf(items, item)
    IN  /\ Call("purge", item)
        /\ draw' = Undef
        /\ UNCHANGED adds
        /\ IF IsThrow(idx) THEN Raised(idx)
           ELSE IF idx.n < 0
           THEN ret' = Num(-1) /\ UNCHANGED <<items, counts, length>>
           ELSE /\ counts' = [counts EXCEPT ![idx.n + 1] = 0]
                /\ ret' = Num(0)
                /\ UNCHANGED <<items, length>>

Purge(item) ==
    LET idx == indexOf(items, item)
    IN  /\ Call("purge", item)
        /\ draw' = Undef
        /\ UNCHANGED adds
        /\ IF IsThrow(idx) THEN Raised(idx)
           ELSE IF idx.n < 0
           THEN ret' = Num(-1) /\ UNCHANGED <<items, counts, length>>
           ELSE /\ counts' = [counts EXCEPT ![idx.n + 1] = 0]
                /\ ret' = idx
                /\ UNCHANGED <<items, length>>

\* delete that splices _items only
Delete_itemsOnly(item) ==
    LET idx == indexOf(items, item)
    IN  /\ Call("delete", item)
        /\ draw' = Undef
        /\ UNCHANGED adds
        /\ IF IsThrow(idx) THEN Raised(idx)
           ELSE IF idx.n < 0
           THEN ret' = Num(-1) /\ UNCHANGED <<items, counts, length>>
           ELSE /\ items' = splice(items, idx.n)
                /\ ret' = idx
                /\ UNCHANGED <<counts, length>>

Delete(item) ==
    LET idx == indexOf(items, item)
    IN  /\ Call("delete", item)
        /\ draw' = Undef
        /\ UNCHANGED adds
        /\ IF IsThrow(idx) THEN Raised(idx)
           ELSE IF idx.n < 0
           THEN ret' = Num(-1) /\ UNCHANGED <<items, counts, length>>
           ELSE /\ items' = splice(items, idx.n)
                /\ counts' = splice(counts, idx.n)
                /\ ret' = idx
                /\ UNCHANGED length

\* a method that assigns nothing and returns r
Query(name, a, r) ==
    /\ Call(name, a)
    /\ ret' = r
    /\ draw' = Undef
    /\ UNCHANGED <<items, counts, length, adds>>

\* has that takes index 0 for a miss
has_zeroIsMiss(its, item) ==
    LET idx == indexOf(its, item)
    IN  IF IsThrow(idx) THEN idx
        ELSE IF idx.n <= 0 THEN Bool(FALSE) ELSE Bool(TRUE)

has(its, item) ==
    LET idx == indexOf(its, item)
    IN  IF IsThrow(idx) THEN idx
        ELSE IF idx.n < 0 THEN Bool(FALSE) ELSE Bool(TRUE)

Has(item) == Query("has", item, has(items, item))

IndexOf(item) == Query("indexOf", item, indexOf(items, item))

at(its, idx) ==
    IF idx < 0 \/ idx >= Len(its) THEN Undef ELSE its[idx + 1]

At(idx) == Query("at", Num(idx), at(items, idx))

\* countOf that reports a stored count of 0 as 1
countOf_atLeastOne(its, cts, item) ==
    LET idx == indexOf(its, item)
    IN  IF IsThrow(idx) THEN idx
        ELSE IF idx.n < 0 THEN Num(0)
        ELSE IF cts[idx.n + 1] = 0 THEN Num(1) ELSE Num(cts[idx.n + 1])

\* countOf that returns the lookup's -1 for an item that is not stored
countOf_minusOne(its, cts, item) ==
    LET idx == indexOf(its, item)
    IN  IF IsThrow(idx) THEN idx
        ELSE IF idx.n < 0 THEN idx ELSE Num(cts[idx.n + 1])

countOf(its, cts, item) ==
    LET idx == indexOf(its, item)
    IN  IF IsThrow(idx) THEN idx
        ELSE IF idx.n < 0 THEN Num(0) ELSE Num(cts[idx.n + 1])

CountOf(item) == Query("countOf", item, countOf(items, counts, item))

countAt(its, cts, idx) ==
    IF idx < 0 \/ idx >= Len(its) THEN Num(0) ELSE Num(cts[idx + 1])

CountAt(idx) == Query("countAt", Num(idx), countAt(items, counts, idx))

-----------------------------------------------------------------------------
(* helpers.js: weighted random selection *)

RECURSIVE sumTo(_, _)
sumTo(weights, i) == IF i = 0 THEN 0 ELSE sumTo(weights, i - 1) + weights[i]

\* makeCumulative that returns the weights as they are
makeCumulative_plain(weights) == weights

\* makeCumulative(weights): the running sums
makeCumulative(weights) == [i \in 1..Len(weights) |-> sumTo(weights, i)]

\* randomInt(max) = Math.floor(Math.random() * max): the values it can produce.
\* max is undefined when the cumulative weights are empty.
randomInt(max) ==
    IF max.t = "undef" THEN {NaN}
    ELSE IF max.n > 0 THEN {Num(v) : v \in 0..(max.n - 1)}
    ELSE {Num(0)}

\* the scan of choose with <= for <
lessThan_orEqual(choice, cweight) == choice # NaN /\ choice.n <= cweight

\* choice < cweight
lessThan(choice, cweight) == choice # NaN /\ choice.n < cweight

\* cweights[cweights.length - 1]
chooseMax(weights) ==
    LET cweights == makeCumulative(weights)
    IN  IF Len(cweights) = 0 THEN Undef ELSE Num(cweights[Len(cweights)])

\* choose that returns the last index when the scan finds none
choose_lastResort(weights, choice) ==
    LET cweights == makeCumulative(weights)
        hits == {i \in 1..Len(cweights) : lessThan(choice, cweights[i])}
    IN  IF hits = {} THEN Num(Len(cweights) - 1)
        ELSE Num((CHOOSE i \in hits : \A j \in hits : i <= j) - 1)

\* choose(weights) when randomInt produced choice: the 0-based index chosen,
\* or the RangeError of a scan that found none
choose(weights, choice) ==
    LET cweights == makeCumulative(weights)
        hits == {i \in 1..Len(cweights) : lessThan(choice, cweights[i])}
    IN  IF hits = {} THEN Throw("RangeError")
        ELSE Num((CHOOSE i \in hits : \A j \in hits : i <= j) - 1)

\* roulette that gives every item the weight 1 whatever weights holds
roulette_unweighted(its, weights, choice) ==
    IF Len(weights) # 0 /\ Len(weights) # Len(its)
    THEN Throw("RangeError")
    ELSE LET index == choose([i \in 1..Len(its) |-> 1], choice)
         IN  IF IsThrow(index) THEN index ELSE its[index.n + 1]

\* roulette(items, weights) when randomInt produced choice
roulette(its, weights, choice) ==
    LET w == IF Len(weights) = 0 THEN [i \in 1..Len(its) |-> 1] ELSE weights
    IN  IF Len(weights) # 0 /\ Len(weights) # Len(its)
        THEN Throw("RangeError")
        ELSE LET index == choose(w, choice)
             IN  IF IsThrow(index) THEN index ELSE its[index.n + 1]

\* the values roulette(items, weights) hands to randomInt
rouletteMax(its, weights) ==
    chooseMax(IF Len(weights) = 0 THEN [i \in 1..Len(its) |-> 1] ELSE weights)

\* weights[i] * weight for weights[i] ** weight
pow_times(base, exp) == base * exp

RECURSIVE pow(_, _)
\* base ** exp, for integers base >= 0 and exp >= 0
pow(base, exp) == IF exp = 0 THEN 1 ELSE base * pow(base, exp - 1)

\* the exponents get is called with (1 is the default)
Exponents == {0, 1, 2}

\* get that keeps every entry
active_all(cts) == 1..Len(cts)

\* the positions of the entries get keeps: those with a truthy count
active(cts) == {i \in 1..Len(cts) : cts[i] # 0}

RECURSIVE pick(_, _, _)
\* the elements of seq at the positions idxs, in order, from position i on
pick(seq, idxs, i) ==
    IF i > Len(seq) THEN <<>>
    ELSE IF i \in idxs THEN <<seq[i]>> \o pick(seq, idxs, i + 1)
    ELSE pick(seq, idxs, i + 1)

\* the items array get builds
activeItems(its, cts) == pick(its, active(cts), 1)

\* the weights array get builds for the exponent weight
activeWeights(cts, weight) ==
    LET w == pick(cts, active(cts), 1)
    IN  IF weight # 1 THEN [i \in 1..Len(w) |-> pow(w[i], weight)] ELSE w

\* get(weight) when randomInt produced choice
get(its, cts, weight, choice) ==
    roulette(activeItems(its, cts), activeWeights(cts, weight), choice)

\* get that builds its arrays in this._items and this._counts
Get_storing(weight) ==
    \E choice \in randomInt(rouletteMax(activeItems(items, counts),
                                        activeWeights(counts, weight))) :
        /\ Call("get", Num(weight))
        /\ ret' = get(items, counts, weight, choice)
        /\ draw' = choice
        /\ items' = activeItems(items, counts)
        /\ counts' = activeWeights(counts, weight)
        /\ UNCHANGED <<length, adds>>

Get(weight) ==
    \E choice \in randomInt(rouletteMax(activeItems(items, counts),
                                        activeWeights(counts, weight))) :
        /\ Call("get", Num(weight))
        /\ ret' = get(items, counts, weight, choice)
        /\ draw' = choice
        /\ UNCHANGED <<items, counts, length, adds>>

-----------------------------------------------------------------------------
(* The specifications *)

\* the calls that change the collection
Mutate ==
    \/ \E item \in Items : Add(item)
    \/ \E item \in Items : Remove(item)
    \/ \E item \in Items : Purge(item)
    \/ \E item \in Items : Delete(item)

Next == Mutate

Spec == Init /\ [][Next]_vars

\* the calls that change the collection, and the queries between them
NextQuery ==
    \/ Mutate
    \/ \E item \in Items : Has(item)
    \/ \E item \in Items : IndexOf(item)
    \/ \E item \in Items : CountOf(item)
    \/ \E idx \in Indices : At(idx)
    \/ \E idx \in Indices : CountAt(idx)

SpecQuery == Init /\ [][NextQuery]_vars

\* sampling: counts built up by add and taken down by remove, and get
\* between them
NextGet ==
    \/ \E item \in Items : Add(item)
    \/ \E item \in Items : Remove(item)
    \/ \E weight \in Exponents : Get(weight)

SpecGet == Init /\ [][NextGet]_vars

\* an add-only run: add, with the items of the calls that returned recorded
AddOnly(item) ==
    /\ Len(adds) < MaxAdds
    /\ addCore(item)
    /\ adds' = IF IsThrow(ret') THEN adds ELSE Append(adds, item)

NextAdds == \E item \in Items : AddOnly(item)

SpecAdds == Init /\ [][NextAdds]_vars

\* its is an item array add can build: no item is matched (or makes the
\* lookup raise) by the items stored before it.  delete keeps this, because
\* it only takes comparisons away.
validItems(its) ==
    \A i \in 1..Len(its) : indexOf(SubSeq(its, 1, i - 1), its[i]) = Num(-1)

\* any state add, remove, purge and delete can bring the collection to: a
\* valid item array, any counts (add raises them, remove and purge lower them
\* to 0) and a length field that every add of a new item has raised and no
\* delete has lowered
InitCalls ==
    \E k \in 0..MaxLen :
        \E its \in [1..k -> Items] :
            \E cts \in [1..k -> 0..MaxCount] :
                \E l \in k..MaxLength :
                    /\ validItems(its)
                    /\ items = its
                    /\ counts = cts
                    /\ length = l
                    /\ op = "new"
                    /\ arg = Undef
                    /\ ret = Undef
                    /\ draw = Undef
                    /\ pItems = its
                    /\ pCounts = cts
                    /\ pLength = l
                    /\ adds = <<>>
                    /\ roulettes = <<>>

\* one call of any method (get with its default exponent), from any state
\* the collection can be in
NextCalls ==
    /\ op = "new"
    /\ \/ Mutate
       \/ \E item \in Items : Has(item)
       \/ \E item \in Items : IndexOf(item)
       \/ \E item \in Items : CountOf(item)
       \/ \E idx \in Indices : At(idx)
       \/ \E idx \in Indices : CountAt(idx)
       \/ Get(1)

SpecCalls == InitCalls /\ [][NextCalls]_vars

\* items that add stores side by side, in this order
SampleItems == <<Num(1), Obj(<<>>), Arr(<<>>), Obj(<<Prop("a", Num(1))>>)>>

\* a collection of up to MaxLen of these items with any counts up to
\* MaxWeight, as add and remove calls leave it
InitSample ==
    \E k \in 0..MaxLen :
        \E cts \in [1..k -> 0..MaxWeight] :
            /\ validItems(SubSeq(SampleItems, 1, k))
            /\ items = SubSeq(SampleItems, 1, k)
            /\ counts = cts
            /\ length = k
            /\ op = "new"
            /\ arg = Undef
            /\ ret = Undef
            /\ draw = Undef
            /\ pItems = items
            /\ pCounts = cts
            /\ pLength = k
            /\ adds = <<>>
            /\ roulettes = <<>>

\* get calls on such a collection
NextSample == \E weight \in Exponents : Get(weight)

SpecSample == InitSample /\ [][NextSample]_vars

\* remove(item) followed immediately by add of the same item, from any state
\* the collection can be in
NextUndo ==
    \/ op = "new" /\ \E item \in Items : Remove(item)
    \/ op = "remove" /\ Add(arg)

SpecUndo == InitCalls /\ [][NextUndo]_vars

\* the values equal is applied to: primitives, null and undefined, keyed
\* structures of up to two keys in either order, sequences of up to two
\* elements, and one more level of nesting
Primitives == {Num(1), Num(2), Str("1"), Null, Undef}

Keyed ==
    {Obj(<<>>)}
    \cup {Obj(<<Prop(k, v)>>) : k \in {"a", "b"}, v \in Primitives}
    \cup {Obj(<<Prop("a", v), Prop("b", w)>>) : v \in Primitives, w \in Primitives}
    \cup {Obj(<<Prop("b", w), Prop("a", v)>>) : v \in Primitives, w \in Primitives}

Sequences ==
    {Arr(<<>>)}
    \cup {Arr(<<v>>) : v \in Primitives}
    \cup {Arr(<<v, w>>) : v \in Primitives, w \in Primitives}

Inner ==
    { Obj(<<>>), Arr(<<>>), Obj(<<Prop("a", Undef)>>),
      Obj(<<Prop("a", Num(1)), Prop("b", Num(2))>>),
      Obj(<<Prop("b", Num(2)), Prop("a", Num(1))>>),
      Arr(<<Num(1), Num(2)>>), Arr(<<Num(2), Num(1)>>),
      Arr(<<Num(1)>>), Arr(<<Str("1")>>) }

Nested == {Obj(<<Prop("a", x)>>) : x \in Inner} \cup {Arr(<<x>>) : x \in Inner}

Values == Primitives \cup Keyed \cup Sequences \cup Nested

\* the arguments a call of equal is given
InitEqual ==
    \E a \in Values :
        \E b \in Values :
            /\ arg = Arr(<<a, b>>)
            /\ op = "new"
            /\ ret = Undef
            /\ draw = Undef
            /\ items = <<>>
            /\ counts = <<>>
            /\ length = 0
            /\ pItems = <<>>
            /\ pCounts = <<>>
            /\ pLength = 0
            /\ adds = <<>>
            /\ roulettes = <<>>

\* equal(a, b) on the arguments given: true, false, or the TypeError raised
Equal ==
    LET r == equal(arg.e[1].val, arg.e[2].val)
    IN  /\ Call("equal", arg)
        /\ ret' = IF r = "TypeError" THEN Throw("TypeError") ELSE Bool(r = "true")
        /\ UNCHANGED <<items, counts, length, draw, adds>>

SpecEqual == InitEqual /\ [][Equal]_vars

\* the weights a call of choose is given, as numbers
weightsOf(a) == [i \in 1..Len(a.e) |-> a.e[i].val.n]

\* an array of up to MaxLen integer weights from 0 to MaxWeight
InitChoose ==
    \E k \in 0..MaxLen :
        \E w \in [1..k -> 0..MaxWeight] :
            /\ arg = Arr([i \in 1..k |-> Num(w[i])])
            /\ op = "new"
            /\ ret = Undef
            /\ draw = Undef
            /\ items = <<>>
            /\ counts = <<>>
            /\ length = 0
            /\ pItems = <<>>
            /\ pCounts = <<>>
            /\ pLength = 0
            /\ adds = <<>>
            /\ roulettes = <<>>

\* choose(weights), for each value randomInt can produce
Choose ==
    \E choice \in randomInt(chooseMax(weightsOf(arg))) :
        /\ Call("choose", arg)
        /\ ret' = choose(weightsOf(arg), choice)
        /\ draw' = choice
        /\ UNCHANGED <<items, counts, length, adds>>

SpecChoose == InitChoose /\ [][Choose]_vars

\* Weights that are not integers, as count ** weight gives them for a
\* fractional or negative weight, are counted in halves: h stands for h / 2.

\* randomInt(max) for max = max2 / 2: the values Math.floor(Math.random() * max)
\* can produce, the integers below max
randomIntOfHalves(max2) ==
    IF max2.t = "undef" THEN {NaN}
    ELSE IF max2.n > 0 THEN {Num(v) : v \in 0..(((max2.n + 1) \div 2) - 1)}
    ELSE {Num(0)}

\* choice < cweight, for cweight = cweight2 / 2
lessThanHalves(choice, cweight2) == choice # NaN /\ 2 * choice.n < cweight2

\* choose(weights) for weights in halves, when randomInt produced choice
chooseOfHalves(weights2, choice) ==
    LET cweights2 == makeCumulative(weights2)
        hits == {i \in 1..Len(cweights2) : lessThanHalves(choice, cweights2[i])}
    IN  IF hits = {} THEN Throw("RangeError")
        ELSE Num((CHOOSE i \in hits : \A j \in hits : i <= j) - 1)

\* choose(weights) on the weights of InitChoose taken as halves
ChooseOfHalves ==
    \E choice \in randomIntOfHalves(chooseMax(weightsOf(arg))) :
        /\ Call("choose", arg)
        /\ ret' = chooseOfHalves(weightsOf(arg), choice)
        /\ draw' = choice
        /\ UNCHANGED <<items, counts, length, adds>>

SpecFraction == InitChoose /\ [][ChooseOfHalves]_vars

-----------------------------------------------------------------------------
(* The historical variant with the autocalibrate option.  A probability is  *)
(* the fraction num / den.                                                   *)

\* a === b, on primitives
defaultCompare(a, b) == a = b

makeItem(item, tally, probability) ==
    [item |-> item, tally |-> tally, probability |-> probability]

\* new Roulette({autocalibrate: autocal})
newRoulette(autocal) ==
    [length |-> 0, autocalibrate |-> autocal, data |-> <<>>, total |-> 0]

\* r.indexOf(item), as a 0-based index or -1
legacyIndexOf(r, item) ==
    LET found == {i \in 1..r.length :
                     /\ r.data[i].item.t \notin {"null", "undef"}
                     /\ defaultCompare(item, r.data[i].item)}
    IN  IF r.length = 0 \/ found = {} THEN -1
        ELSE (CHOOSE i \in found : \A j \in found : i <= j) - 1

RECURSIVE tallyTo(_, _)
\* the sum that calibrate has accumulated in probability * total at entry i
tallyTo(data, i) == IF i = 0 THEN 0 ELSE tallyTo(data, i - 1) + data[i].tally

\* r.calibrate()
calibrate(r) ==
    IF r.total = 0 THEN r
    ELSE [r EXCEPT !.data =
             [i \in 1..Len(r.data) |->
                 IF i <= r.length
                 THEN [r.data[i] EXCEPT
                          !.probability = [num |-> tallyTo(r.data, i), den |-> r.total]]
                 ELSE r.data[i]]]

\* the end of add, remove and purge: if(this.autocalibrate) this.calibrate()
autocalibrated(r) == IF r.autocalibrate THEN calibrate(r) ELSE r

\* r.add(item), with one argument
legacyAdd(r, item) ==
    LET idx == legacyIndexOf(r, item)
    IN  IF idx < 0
        THEN autocalibrated(
                 [r EXCEPT !.data = Append(r.data, makeItem(item, 1, [num |-> 0, den |-> 1])),
                           !.length = Len(r.data) + 1,
                           !.total = r.total + 1])
        ELSE autocalibrated(
                 [r EXCEPT !.data[idx + 1].tally = @ + 1,
                           !.total = r.total + 1])

\* r.remove(item), with one argument
legacyRemove(r, item) ==
    LET idx == legacyIndexOf(r, item)
    IN  IF idx < 0 THEN r
        ELSE LET dec == IF r.data[idx + 1].tally > 0
                        THEN [r EXCEPT !.data[idx + 1].tally = @ - 1,
                                       !.total = r.total - 1]
                        ELSE r
                 cut == IF dec.data[idx + 1].tally = 0
                        THEN [dec EXCEPT !.data = splice(dec.data, idx),
                                         !.length = Len(dec.data) - 1]
                        ELSE dec
             IN  autocalibrated(cut)

\* r.purge(item)
legacyPurge(r, item) ==
    LET idx == legacyIndexOf(r, item)
    IN  IF idx < 0 THEN r
        ELSE autocalibrated(
                 [r EXCEPT !.total = r.total - r.data[idx + 1].tally,
                           !.data = splice(r.data, idx),
                           !.length = Len(r.data) - 1])

\* r.get() when Math.random() produced rn / RnSteps
legacyGet(r, rn) ==
    LET above == {i \in 1..r.length :
                     r.data[i].probability.num * RnSteps > rn * r.data[i].probability.den}
    IN  IF r.length = 0 THEN Null
        ELSE IF rn <= 0 THEN r.data[1].item
        ELSE IF above = {} THEN Null
        ELSE r.data[CHOOSE i \in above : \A j \in above : i <= j].item

\* the items the variant's methods are called with
LegacyItems == {Str("a"), Str("b"), Str("c")}

\* one instance without and one with autocalibrate
InitLegacy ==
    /\ roulettes = [autocal \in BOOLEAN |-> newRoulette(autocal)]
    /\ items = <<>>
    /\ counts = <<>>
    /\ length = 0
    /\ op = "new"
    /\ arg = Undef
    /\ ret = Undef
    /\ draw = Undef
    /\ pItems = <<>>
    /\ pCounts = <<>>
    /\ pLength = 0
    /\ adds = <<>>

\* a call of the variant's method name on both instances; add, remove and
\* purge return the instance
LegacyCall(name, a, r, d) ==
    /\ op' = name
    /\ arg' = a
    /\ ret' = r
    /\ draw' = d
    /\ UNCHANGED <<items, counts, length, pItems, pCounts, pLength, adds>>

LegacyAdd(item) ==
    /\ \A autocal \in BOOLEAN :
           LET r == roulettes[autocal]
               idx == legacyIndexOf(r, item)
           IN  IF idx < 0 THEN r.length < MaxLen
               ELSE r.data[idx + 1].tally < MaxCount
    /\ roulettes' = [autocal \in BOOLEAN |-> legacyAdd(roulettes[autocal], item)]
    /\ LegacyCall("add", item, Undef, Undef)

LegacyRemove(item) ==
    /\ roulettes' = [autocal \in BOOLEAN |-> legacyRemove(roulettes[autocal], item)]
    /\ LegacyCall("remove", item, Undef, Undef)

LegacyPurge(item) ==
    /\ roulettes' = [autocal \in BOOLEAN |-> legacyPurge(roulettes[autocal], item)]
    /\ LegacyCall("purge", item, Undef, Undef)

\* get() on both instances with the same value of Math.random(); ret holds
\* the two results
LegacyGet ==
    \E rn \in 0..(RnSteps - 1) :
        /\ LegacyCall("get", Undef,
                      Arr(<<legacyGet(roulettes[FALSE], rn),
                            legacyGet(roulettes[TRUE], rn)>>),
                      Num(rn))
        /\ UNCHANGED roulettes

NextLegacy ==
    \/ \E item \in LegacyItems : LegacyAdd(item)
    \/ \E item \in LegacyItems : LegacyRemove(item)
    \/ \E item \in LegacyItems : LegacyPurge(item)
    \/ LegacyGet

SpecLegacy == InitLegacy /\ [][NextLegacy]_vars

-----------------------------------------------------------------------------
(* roulette(items, weights) called on its own *)

\* the items roulette is called with: a prefix of these
RouletteItems == <<Str("a"), Str("b"), Str("c"), Str("d")>>

\* the elements of the array a
elemsOf(a) == [i \in 1..Len(a.e) |-> a.e[i].val]

\* up to MaxLen items, and weights that are missing (undefined) or an array
\* of up to MaxLen integers from 0 to MaxWeight, of any length
InitRoulette ==
    \E k \in 0..MaxLen :
        \E j \in 0..MaxLen :
            \E w \in [1..j -> 0..MaxWeight] :
                \E given \in {Undef, Arr([i \in 1..j |-> Num(w[i])])} :
                    /\ arg = Arr(<<Arr(SubSeq(RouletteItems, 1, k)), given>>)
                    /\ op = "new"
                    /\ ret = Undef
                    /\ draw = Undef
                    /\ items = <<>>
                    /\ counts = <<>>
                    /\ length = 0
                    /\ pItems = <<>>
                    /\ pCounts = <<>>
                    /\ pLength = 0
                    /\ adds = <<>>
                    /\ roulettes = <<>>

\* roulette(items, weights) on the arguments given.  !weights sends missing
\* weights down the branch of an empty array; the RangeError of unequal
\* lengths is thrown before choose is called, so that nothing is drawn.
Roulette ==
    LET its == elemsOf(arg.e[1].val)
        given == arg.e[2].val
        weights == IF given.t = "undef" THEN <<>> ELSE weightsOf(given)
    IN  /\ op = "new"
        /\ Call("roulette", arg)
        /\ UNCHANGED <<items, counts, length, adds>>
        /\ IF Len(weights) # 0 /\ Len(weights) # Len(its)
           THEN ret' = roulette(its, weights, Undef) /\ draw' = Undef
           ELSE \E choice \in randomInt(rouletteMax(its, weights)) :
                    /\ ret' = roulette(its, weights, choice)
                    /\ draw' = choice

SpecRoulette == InitRoulette /\ [][Roulette]_vars

\* remove, purge or delete of an item followed immediately by add of the same
\* item, from any state the collection can be in
NextReadd ==
    \/ op = "new" /\ \E item \in Items : Remove(item)
    \/ op = "new" /\ \E item \in Items : Purge(item)
    \/ op = "new" /\ \E item \in Items : Delete(item)
    \/ op \in {"remove", "purge", "delete"} /\ Add(arg)

SpecReadd == InitCalls /\ [][NextReadd]_vars

\* one call of a method that only reads (get with any exponent), from any
\* state the collection can be in
NextReads ==
    /\ op = "new"
    /\ \/ \E item \in Items : Has(item)
       \/ \E item \in Items : IndexOf(item)
       \/ \E item \in Items : CountOf(item)
       \/ \E idx \in Indices : At(idx)
       \/ \E idx \in Indices : CountAt(idx)
       \/ \E weight \in Exponents : Get(weight)

SpecReads == InitCalls /\ [][NextReads]_vars

\* purge(item) followed immediately by get with any exponent, from any state
\* the collection can be in
NextZero ==
    \/ op = "new" /\ \E item \in Items : Purge(item)
    \/ op = "purge" /\ \E weight \in Exponents : Get(weight)

SpecZero == InitCalls /\ [][NextZero]_vars

-----------------------------------------------------------------------------
(* The UMD class of src/roulette.js.  An instance is the record of its      *)
(* indexed properties this[0], this[1], ... (elems), length, _tally, total.  *)

\* new Roulette()
umdRoulette == [length |-> 0, elems |-> <<>>, tally |-> <<>>, total |-> 0]

\* r.indexOf(item), as a 0-based index or -1; _compare is defaultCompare
umdIndexOf(r, item) ==
    LET found == {i \in 1..r.length :
                     /\ r.elems[i].t \notin {"null", "undef"}
                     /\ defaultCompare(item, r.elems[i])}
    IN  IF r.length = 0 \/ found = {} THEN -1
        ELSE (CHOOSE i \in found : \A j \in found : i <= j) - 1

\* r.add(item)
umdAdd(r, item) ==
    LET idx == umdIndexOf(r, item)
    IN  IF idx < 0
        THEN [r EXCEPT !.elems = Append(r.elems, item),
                       !.length = r.length + 1,
                       !.tally = Append(r.tally, 1),
                       !.total = r.total + 1]
        ELSE [r EXCEPT !.tally[idx + 1] = @ + 1,
                       !.total = r.total + 1]

\* r.remove(item): the branch taken at a tally of zero is empty
umdRemove(r, item) ==
    LET idx == umdIndexOf(r, item)
    IN  IF idx < 0 THEN r
        ELSE [r EXCEPT !.tally[idx + 1] = @ - 1,
                       !.total = r.total - 1]

InitUmd ==
    /\ roulettes = <<umdRoulette>>
    /\ items = <<>>
    /\ counts = <<>>
    /\ length = 0
    /\ op = "new"
    /\ arg = Undef
    /\ ret = Undef
    /\ draw = Undef
    /\ pItems = <<>>
    /\ pCounts = <<>>
    /\ pLength = 0
    /\ adds = <<>>

\* add and remove return the instance
UmdAdd(item) ==
    LET r == roulettes[1]
        idx == umdIndexOf(r, item)
    IN  /\ IF idx < 0 THEN r.length < MaxLen ELSE r.tally[idx + 1] < MaxCount
        /\ roulettes' = <<umdAdd(r, item)>>
        /\ LegacyCall("add", item, Undef, Undef)

\* remove, for tallies down to -MaxCount
UmdRemove(item) ==
    LET r == roulettes[1]
        idx == umdIndexOf(r, item)
    IN  /\ idx >= 0 => r.tally[idx + 1] > -MaxCount
        /\ roulettes' = <<umdRemove(r, item)>>
        /\ LegacyCall("remove", item, Undef, Undef)

UmdIndexOf(item) ==
    /\ LegacyCall("indexOf", item, Num(umdIndexOf(roulettes[1], item)), Undef)
    /\ UNCHANGED roulettes

NextUmd ==
    \/ \E item \in LegacyItems : UmdAdd(item)
    \/ \E item \in LegacyItems : UmdRemove(item)
    \/ \E item \in LegacyItems : UmdIndexOf(item)

SpecUmd == InitUmd /\ [][NextUmd]_vars

-----------------------------------------------------------------------------
(* getopt(opt, opts, def, bool) *)

\* !!v
truthy(v) ==
    CASE v.t \in {"null", "undef"} -> FALSE
      [] v.t = "bool" -> v.n = 1
      [] v.t = "num" -> v # NaN /\ v.n # 0
      [] v.t = "str" -> v.s # ""
      [] OTHER -> TRUE

\* getopt(opt, opts, def, bool), for opts undefined, null or a keyed structure
getopt(opt, opts, def, bool) ==
    IF ~truthy(opts) THEN (IF truthy(def) THEN def ELSE Undef)
    ELSE IF ~hasOwnProperty(opts, opt) THEN def
    ELSE IF ~bool THEN getProp(opts, opt)
    ELSE Bool(truthy(getProp(opts, opt)))

\* the option names, the option values and defaults getopt is called with
OptNames == {"a", "b"}
OptValues ==
    {Undef, Null, Num(0), Num(1), Bool(FALSE), Bool(TRUE), Str(""), Str("d")}

\* the opts argument: missing, or a keyed structure with up to two options
OptsGiven ==
    {Undef, Null, Obj(<<>>)}
    \cup {Obj(<<Prop(k, v)>>) : k \in OptNames, v \in OptValues}
    \cup {Obj(<<Prop("a", v), Prop("b", Num(2))>>) : v \in OptValues}

InitGetopt ==
    \E opt \in OptNames :
        \E opts \in OptsGiven :
            \E def \in OptValues :
                \E bool \in BOOLEAN :
                    /\ arg = Arr(<<Str(opt), opts, def, Bool(bool)>>)
                    /\ op = "new"
                    /\ ret = Undef
                    /\ draw = Undef
                    /\ items = <<>>
                    /\ counts = <<>>
                    /\ length = 0
                    /\ pItems = <<>>
                    /\ pCounts = <<>>
                    /\ pLength = 0
                    /\ adds = <<>>
                    /\ roulettes = <<>>

\* getopt on the arguments given
Getopt ==
    /\ op = "new"
    /\ Call("getopt", arg)
    /\ ret' = getopt(arg.e[1].val.s, arg.e[2].val, arg.e[3].val, arg.e[4].val.n = 1)
    /\ UNCHANGED <<items, counts, length, draw, adds>>

SpecGetopt == InitGetopt /\ [][Getopt]_vars

-----------------------------------------------------------------------------
(* hash(o): a string built from the value, or the TypeError that             *)
(* Object.keys raises for null and undefined                                *)

\* String(o) for a boolean, a number or a string
String(o) ==
    CASE o.t = "bool" -> IF o.n = 1 THEN "true" ELSE "false"
      [] o.t = "str" -> o.s
      [] o = NaN -> "NaN"
      [] o.n = 0 -> "0"
      [] o.n = 1 -> "1"
      [] o.n = 2 -> "2"
      [] o.n = 3 -> "3"
      [] OTHER -> "4"

\* the place of a key in the order props.sort() gives
keyRank(k) == CASE k = "a" -> 1 [] k = "b" -> 2 [] OTHER -> 3

\* Object.keys(o) sorted, each key with its value
sortedProps(o) ==
    SortSeq(o.e, LAMBDA x, y : keyRank(x.key) < keyRank(y.key))

RECURSIVE hash(_), hashElems(_, _), hashProps(_, _)

\* the loop over the elements of an array, from element i on
hashElems(o, i) ==
    IF i > Len(o.e) THEN Str("")
    ELSE LET h == hash(o.e[i].val)
             rest == hashElems(o, i + 1)
         IN  IF IsThrow(h) THEN h
             ELSE IF IsThrow(rest) THEN rest
             ELSE Str(h.s \o "," \o rest.s)

\* the loop over the sorted properties, from property i on
hashProps(props, i) ==
    IF i > Len(props) THEN Str("")
    ELSE LET h == hash(props[i].val)
             rest == hashProps(props, i + 1)
         IN  IF IsThrow(h) THEN h
             ELSE IF IsThrow(rest) THEN rest
             ELSE Str(props[i].key \o ":" \o h.s \o "," \o rest.s)

hash(o) ==
    IF typeOf(o) \in {"boolean", "number", "string"} THEN Str(String(o))
    ELSE IF isArray(o)
         THEN LET body == hashElems(o, 1)
              IN  IF IsThrow(body) THEN body ELSE Str("[" \o body.s \o "]")
    ELSE IF o.t \in {"null", "undef"} THEN Throw("TypeError")
    ELSE LET body == hashProps(sortedProps(o), 1)
         IN  IF IsThrow(body) THEN body ELSE Str("{" \o body.s \o "}")

\* hash(a) and hash(b) on the two values given; ret holds the two results
Hash ==
    /\ op = "new"
    /\ Call("hash", arg)
    /\ ret' = Arr(<<hash(arg.e[1].val), hash(arg.e[2].val)>>)
    /\ UNCHANGED <<items, counts, length, draw, adds>>

SpecHash == InitEqual /\ [][Hash]_vars

-----------------------------------------------------------------------------
(* What the claims are stated with *)

\* the positions of the entries of its that the configured predicate,
\* called as comparison(queried item, stored item), accepts for x
Matches(its, x) == {i \in 1..Len(its) : comparison(x, its[i]) = "true"}

\* the smallest element of a non-empty set of positions
First(S) == CHOOSE i \in S : \A j \in S : i <= j

\* the last call returned (it did not raise)
Returned == ~IsThrow(ret)

RECURSIVE SumCounts(_, _)
\* cts[1] + ... + cts[i]
SumCounts(cts, i) == IF i = 0 THEN 0 ELSE SumCounts(cts, i - 1) + cts[i]

-----------------------------------------------------------------------------
(* Claims *)

\* C1: get() with the default exponent 1 selects in proportion to the
\* counts.  With T the sum of the counts, the draw is any integer v of
\* [0, T); the entry returned is the one at the position j whose counts up to
\* j - 1 sum to at most v and whose counts up to j sum to more than v; and
\* exactly counts[j] of the T draws return the entry at position j.
C1_GetProportionalToCounts ==
    LET T == SumCounts(counts, Len(counts))
        Lo(j) == SumCounts(counts, j - 1)
        Hi(j) == SumCounts(counts, j)
    IN  (op = "get" /\ arg = Num(1) /\ T > 0) =>
            /\ draw \in {Num(v) : v \in 0..(T - 1)}
            /\ \E j \in 1..Len(items) :
                   Lo(j) <= draw.n /\ draw.n < Hi(j) /\ ret = items[j]
            /\ randomInt(rouletteMax(activeItems(items, counts),
                                     activeWeights(counts, 1)))
                   = {Num(v) : v \in 0..(T - 1)}
            /\ \A j \in 1..Len(items) :
                   Cardinality({v \in 0..(T - 1) :
                       get(items, counts, 1, Num(v)) = items[j]}) = counts[j]

\* C1 witness: get() on counts 1, 0, 2 drew 1 and returned the third entry
C1_Witness ==
    /\ op = "get" /\ arg = Num(1)
    /\ counts = <<1, 0, 2>>
    /\ draw = Num(1)
    /\ ret = items[3]

\* C2: the length field equals the number of entries stored, in every state
\* reachable by add, remove, purge and delete.
C2_LengthIsNumberOfEntries == length = Len(items)

\* C3: add(item) appends one entry (item, 1) after the existing entries and
\* leaves those as they were when no entry matches item; when an entry
\* matches, the count of a matching entry grows by exactly 1 and nothing else
\* changes.  (The two cases are those of a lookup that returned.)
C3_AddAppendsOrIncrements ==
    (op = "add" /\ Returned) =>
        IF Matches(pItems, arg) = {}
        THEN /\ items = Append(pItems, arg)
             /\ counts = Append(pCounts, 1)
        ELSE /\ items = pItems
             /\ \E i \in Matches(pItems, arg) :
                    counts = [pCounts EXCEPT ![i] = pCounts[i] + 1]

\* C3 witness: with three entries stored, an add that matched the second one
\* and incremented its count
C3_Witness ==
    /\ op = "add" /\ Returned
    /\ Len(pItems) = 3
    /\ Matches(pItems, arg) = {2}
    /\ counts[2] = pCounts[2] + 1

\* C4: add(item) returns the item's count after the call: 1 when no entry
\* matched, and the previous count plus 1 when one did.
C4_AddReturnsCount ==
    (op = "add" /\ Returned) =>
        IF Matches(pItems, arg) = {}
        THEN ret = Num(1)
        ELSE \E i \in Matches(pItems, arg) : ret = Num(pCounts[i] + 1)

\* the number of calls of the add-only run whose item x resolves to
TimesAdded(x) ==
    Cardinality({i \in 1..Len(adds) : comparison(x, adds[i]) = "true"})

\* the number of items of the add-only run that no earlier one is equal to
DistinctAdded ==
    Cardinality({i \in 1..Len(adds) :
        \A j \in 1..(i - 1) : comparison(adds[i], adds[j]) # "true"})

\* C5: after a run of add calls only, length is the number of distinct items
\* added and countOf(x) is the number of times x was added, for every item x
\* (for which countOf returns).
C5_AddOnlyCounts ==
    /\ length = DistinctAdded
    /\ \A x \in Items :
           LET c == countOf(items, counts, x)
           IN  ~IsThrow(c) => c = Num(TimesAdded(x))

\* C6: remove(item) on an entry with count c >= 1 sets its count to c - 1,
\* returns c - 1 and keeps the entry where it is: the items, the other counts
\* and the number of entries are unchanged and has(item) is still true.
C6_RemoveDecrements ==
    (op = "remove" /\ Returned /\ Matches(pItems, arg) # {}) =>
        LET i == First(Matches(pItems, arg))
        IN  pCounts[i] >= 1 =>
                /\ counts = [pCounts EXCEPT ![i] = pCounts[i] - 1]
                /\ ret = Num(pCounts[i] - 1)
                /\ items = pItems
                /\ length = pLength
                /\ has(items, arg) = Bool(TRUE)

\* C6 witness: remove took the count of the second entry from 1 to 0
C6_Witness ==
    /\ op = "remove" /\ Returned
    /\ Matches(pItems, arg) = {2}
    /\ pCounts[2] = 1
    /\ counts[2] = 0
    /\ Len(items) = Len(pItems)

\* C7: every stored count is a non-negative integer, and remove(item) on an
\* entry whose count is already 0 changes nothing and returns the same value
\* (0) every time.
C7_CountsNonNegative ==
    /\ \A i \in 1..Len(counts) : counts[i] \in Nat
    /\ (op = "remove" /\ Returned /\ Matches(pItems, arg) # {}) =>
           (pCounts[First(Matches(pItems, arg))] = 0 =>
                /\ items = pItems
                /\ counts = pCounts
                /\ length = pLength
                /\ ret = Num(0))

\* C7 witness: remove on an entry whose count was 0
C7_Witness ==
    /\ op = "remove" /\ Returned
    /\ Matches(pItems, arg) # {}
    /\ pCounts[First(Matches(pItems, arg))] = 0
    /\ counts = pCounts

\* C8: remove(item) returns -1 when no entry matches item, and so a value
\* other than the 0 of an entry found at count zero.
C8_RemoveMissReturnsMinusOne ==
    (op = "remove" /\ Returned /\ Matches(pItems, arg) = {}) => ret = Num(-1)

\* C9: purge(item) on a present item sets the entry's count to 0, keeps every
\* entry where it is (countOf(item) = 0 and has(item) = true afterwards, the
\* other counts unchanged) and returns the entry's index; on an absent item
\* it returns -1.
C9_PurgeZeroesCount ==
    (op = "purge" /\ Returned) =>
        IF Matches(pItems, arg) = {}
        THEN ret = Num(-1)
        ELSE LET i == First(Matches(pItems, arg))
             IN  /\ counts = [pCounts EXCEPT ![i] = 0]
                 /\ items = pItems
                 /\ length = pLength
                 /\ ret = Num(i - 1)
                 /\ countOf(items, counts, arg) = Num(0)
                 /\ has(items, arg) = Bool(TRUE)

\* C9 witness: purge zeroed the count 2 of the second of three entries
C9_Witness ==
    /\ op = "purge" /\ ret = Num(1)
    /\ Len(items) = 3
    /\ pCounts[2] = 2
    /\ counts[2] = 0

\* C10: delete(item) on a present item at index i removes that entry (item
\* and count), returns i, makes has(item) false, moves every later entry down
\* by one and leaves the earlier ones; on an absent item it returns -1.
C10_DeleteRemovesEntry ==
    (op = "delete" /\ Returned) =>
        IF Matches(pItems, arg) = {}
        THEN ret = Num(-1)
        ELSE LET i == First(Matches(pItems, arg))
             IN  /\ ret = Num(i - 1)
                 /\ Len(items) = Len(pItems) - 1
                 /\ Len(counts) = Len(pCounts) - 1
                 /\ \A j \in 1..(i - 1) :
                        items[j] = pItems[j] /\ counts[j] = pCounts[j]
                 /\ \A j \in (i + 1)..Len(pItems) :
                        items[j - 1] = pItems[j] /\ counts[j - 1] = pCounts[j]
                 /\ has(items, arg) = Bool(FALSE)

-----------------------------------------------------------------------------
\* C11: add, remove, purge and every query leave indexOf(x) as it was for
\* every item x that was stored before the call; a call after which some
\* stored item is found at another index, or not found, is a delete.
C11_OnlyDeleteMovesEntries ==
    \/ op = "delete"
    \/ items = pItems
    \/ \A i \in 1..Len(pItems) :
           indexOf(items, pItems[i]) = indexOf(pItems, pItems[i])

\* remove took the first entry's last occurrence, and the entry behind it is
\* still found at index 1
C11_Witness ==
    /\ op = "remove"
    /\ ret = Num(0)
    /\ Len(pItems) >= 2
    /\ indexOf(pItems, arg) = Num(0)
    /\ pCounts[1] = 1
    /\ counts[1] = 0
    /\ indexOf(pItems, pItems[2]) = Num(1)
    /\ indexOf(items, pItems[2]) = Num(1)

-----------------------------------------------------------------------------
\* C12: has(item) returns true exactly when some stored entry matches item,
\* whatever that entry's count; it is still true after remove or purge has
\* brought the count to 0, and an item that was found is no longer found only
\* after a delete.
C12_HasIgnoresCount ==
    /\ (op = "has" /\ Returned) => ret = Bool(Matches(pItems, arg) # {})
    /\ (op \in {"remove", "purge"} /\ Returned /\ Matches(pItems, arg) # {}) =>
           /\ counts[First(Matches(pItems, arg))] = 0 => has(items, arg) = Bool(TRUE)
           /\ has(items, arg) = has(pItems, arg)
    /\ \/ op = "delete"
       \/ items = pItems
       \/ \A x \in Items :
              has(pItems, x) = Bool(TRUE) => has(items, x) = Bool(TRUE)

\* has finds the first entry although its count is 0
C12_Witness ==
    /\ op = "has"
    /\ ret = Bool(TRUE)
    /\ Matches(pItems, arg) # {}
    /\ First(Matches(pItems, arg)) = 1
    /\ pCounts[1] = 0

-----------------------------------------------------------------------------
-----------------------------------------------------------------------------
\* C15: at(i) returns the stored item and countAt(i) its count for every
\* index i with 0 <= i < length, and for every other index at(i) returns
\* undefined and countAt(i) returns 0; neither raises.
C15_AtAndCountAtWithinLength ==
    /\ op = "at" =>
           IF 0 <= arg.n /\ arg.n < pLength
           THEN arg.n < Len(pItems) /\ ret = pItems[arg.n + 1]
           ELSE ret = Undef
    /\ op = "countAt" =>
           IF 0 <= arg.n /\ arg.n < pLength
           THEN arg.n < Len(pCounts) /\ ret = Num(pCounts[arg.n + 1])
           ELSE ret = Num(0)

-----------------------------------------------------------------------------
\* C16: get() on a collection with no entries, or with every count 0, returns
\* undefined and does not raise.
C16_GetOnNothingReturnsAbsent ==
    (op = "get" /\ \A i \in 1..Len(pCounts) : pCounts[i] = 0) => ret = Undef

\* C17: when some count is > 0, get(exponent) returns a stored item whose
\* count is > 0, for every draw and every exponent; an item whose count is 0
\* is not returned.
C17_GetReturnsActiveItem ==
    (op = "get" /\ \E i \in 1..Len(pCounts) : pCounts[i] > 0) =>
        /\ \E j \in 1..Len(pItems) : pCounts[j] > 0 /\ ret = pItems[j]
        /\ \A j \in 1..Len(pItems) : pCounts[j] = 0 => ret # pItems[j]

\* get(0) on two entries of which the first has count 0: the second is
\* returned
C17_Witness ==
    /\ op = "get"
    /\ arg = Num(0)
    /\ Len(pItems) = 2
    /\ pCounts = <<0, 2>>
    /\ ret = pItems[2]

-----------------------------------------------------------------------------
\* count ** exponent, for the exponents get is called with
Power(c, e) == CASE e = 0 -> 1 [] e = 1 -> c [] e = 2 -> c * c

\* the weight C18 gives entry j under exponent e
WeightOf(cts, j, e) == IF cts[j] > 0 THEN Power(cts[j], e) ELSE 0

RECURSIVE SumWeights(_, _, _)
\* the weights of the first i entries, added up
SumWeights(cts, i, e) ==
    IF i = 0 THEN 0 ELSE SumWeights(cts, i - 1, e) + WeightOf(cts, i, e)

\* how many of the draws 0..(n - 1) make get(e) return entry j
DrawsFor(j, e, n) ==
    Cardinality({v \in 0..(n - 1) : get(items, counts, e, Num(v)) = items[j]})

\* C18: get(exponent) gives each entry with count > 0 the weight
\* count ** exponent: the draws are the integers below the sum T of these
\* weights, and entry j is returned for the draws of its share of [0, T).
\* With exponent 0 each such entry is returned by one of the k draws, and with
\* exponent 2 and counts 1, 2, 3 the entries are returned by 1, 4 and 9 of the
\* 14 draws.
C18_GetWeightsByCountPower ==
    LET e == arg.n
        T == SumWeights(counts, Len(counts), e)
    IN  (op = "get" /\ T > 0) =>
            /\ randomInt(rouletteMax(activeItems(items, counts),
                                     activeWeights(counts, e)))
                   = {Num(v) : v \in 0..(T - 1)}
            /\ draw \in {Num(v) : v \in 0..(T - 1)}
            /\ \A j \in 1..Len(items) :
                   ret = items[j] <=>
                       /\ SumWeights(counts, j - 1, e) <= draw.n
                       /\ draw.n < SumWeights(counts, j, e)
            /\ e = 0 =>
                   \A j \in 1..Len(items) :
                       DrawsFor(j, 0, T) = IF counts[j] > 0 THEN 1 ELSE 0
            /\ (e = 2 /\ counts = <<1, 2, 3>>) =>
                   /\ T = 14
                   /\ DrawsFor(1, 2, 14) = 1
                   /\ DrawsFor(2, 2, 14) = 4
                   /\ DrawsFor(3, 2, 14) = 9

\* get(2) on counts 1, 2, 3 drew 5, the first draw of the third entry's nine
C18_Witness ==
    /\ op = "get"
    /\ arg = Num(2)
    /\ counts = <<1, 2, 3>>
    /\ draw = Num(5)
    /\ ret = items[3]

-----------------------------------------------------------------------------
\* C19: add(item) never raises, whatever item of null, primitives, arrays and
\* keyed structures it is given and whatever is stored.
C19_AddNeverRaises == op = "add" => Returned

\* C20: no two distinct stored entries satisfy the default deep equality, in
\* either argument order.
C20_EntriesPairwiseDistinct ==
    \A i, j \in 1..Len(items) :
        i # j => comparison(items[i], items[j]) # "true"

-----------------------------------------------------------------------------
\* C21: for an item whose count is at least 1, remove(item) followed
\* immediately by add(item) restores the state before the two calls: the
\* items, their order, every count and the length are the same.
C21_RemoveThenAddRestores ==
    [][(/\ op = "remove"
        /\ Returned
        /\ Matches(pItems, arg) # {}
        /\ pCounts[First(Matches(pItems, arg))] >= 1
        /\ op' = "add"
        /\ arg' = arg)
       => (items' = pItems /\ counts' = pCounts /\ length' = pLength)]_vars

\* add has put back the occurrence that the remove before it took from the
\* first of several entries
C21_Witness ==
    /\ op = "add"
    /\ Returned
    /\ Len(items) >= 2
    /\ Matches(items, arg) # {}
    /\ First(Matches(items, arg)) = 1
    /\ pCounts[1] = 0
    /\ counts[1] = 1
    /\ items = pItems

-----------------------------------------------------------------------------
\* the two arguments of a call of equal
EqA == arg.e[1].val
EqB == arg.e[2].val

\* the keys of a keyed structure, and the value under one of them
Keys(v) == {v.e[i].key : i \in 1..Len(v.e)}
ValueAt(v, k) == v.e[CHOOSE i \in 1..Len(v.e) : v.e[i].key = k].val

IsKeyed(v) == v.t = "obj"
IsSequence(v) == v.t = "arr"
IsPrimitive(v) == v.t \in {"num", "str", "bool"}

\* C22: equal treats keyed structures with the same keys and values as equal
\* whatever the order of the keys, treats sequences as equal only when they
\* have the same length and equal elements at every position, and never
\* treats primitives of different type as equal, at every depth.
C22_EqualIsStructural ==
    op = "equal" =>
        /\ (/\ IsKeyed(EqA) /\ IsKeyed(EqB)
            /\ Keys(EqA) = Keys(EqB)
            /\ \A k \in Keys(EqA) : ValueAt(EqA, k) = ValueAt(EqB, k))
           => ret = Bool(TRUE)
        /\ (IsSequence(EqA) /\ IsSequence(EqB) /\ ret = Bool(TRUE)) =>
               /\ Len(EqA.e) = Len(EqB.e)
               /\ \A i \in 1..Len(EqA.e) :
                      equal(EqA.e[i].val, EqB.e[i].val) = "true"
        /\ (IsPrimitive(EqA) /\ IsPrimitive(EqB) /\ EqA.t # EqB.t) =>
               ret = Bool(FALSE)
        /\ (/\ EqA.t = EqB.t /\ Len(EqA.e) = 1 /\ Len(EqB.e) = 1
            /\ EqA.e[1].key = EqB.e[1].key
            /\ IsPrimitive(EqA.e[1].val) /\ IsPrimitive(EqB.e[1].val)
            /\ EqA.e[1].val.t # EqB.e[1].val.t)
           => ret = Bool(FALSE)

\* C23: null equals only null and undefined only undefined: equal(null, x)
\* and equal(x, null) are false, and do not raise, for every other x.
C23_NullEqualsOnlyNull ==
    op = "equal" =>
        /\ (EqA = Null /\ EqB = Null) => ret = Bool(TRUE)
        /\ (EqA = Undef /\ EqB = Undef) => ret = Bool(TRUE)
        /\ ((EqA = Null) # (EqB = Null)) => ret = Bool(FALSE)
        /\ ((EqA = Undef) # (EqB = Undef)) => ret = Bool(FALSE)

\* C24: two keyed structures are equal exactly when they have the same set of
\* keys and the values under each key are equal, also when such a value is
\* undefined or null; a keyed structure is never equal to a sequence.
C24_KeyedEqualIffSameKeysAndValues ==
    op = "equal" =>
        /\ (IsKeyed(EqA) /\ IsKeyed(EqB)) =>
               (ret = Bool(TRUE)) =
                   (/\ Keys(EqA) = Keys(EqB)
                    /\ \A k \in Keys(EqA) :
                           equal(ValueAt(EqA, k), ValueAt(EqB, k)) = "true")
        /\ ((IsKeyed(EqA) /\ IsSequence(EqB)) \/ (IsSequence(EqA) /\ IsKeyed(EqB))) =>
               ret # Bool(TRUE)

-----------------------------------------------------------------------------
RECURSIVE Total(_, _)
\* w[1] + ... + w[i]
Total(w, i) == IF i = 0 THEN 0 ELSE Total(w, i - 1) + w[i]

\* C25: for a non-empty vector of non-negative integer weights with total
\* T > 0, the cumulative sums are the running totals (non-decreasing, the
\* last one T), every draw is in [0, T), and choose returns the first index
\* whose cumulative sum exceeds the draw: an index of the vector, with
\* weight > 0; the scan never ends in the error.
C25_ChooseReturnsFirstIndexAbove ==
    LET w == weightsOf(arg)
        n == Len(w)
        T == Total(w, n)
        C == makeCumulative(w)
    IN  (op = "choose" /\ n > 0 /\ T > 0) =>
            /\ Len(C) = n
            /\ \A i \in 1..n : C[i] = Total(w, i)
            /\ \A i \in 1..(n - 1) : C[i] <= C[i + 1]
            /\ C[n] = T
            /\ randomInt(chooseMax(w)) = {Num(v) : v \in 0..(T - 1)}
            /\ draw \in {Num(v) : v \in 0..(T - 1)}
            /\ Returned
            /\ ret.t = "num"
            /\ 0 <= ret.n /\ ret.n < n
            /\ draw.n < Total(w, ret.n + 1)
            /\ \A i \in 1..ret.n : draw.n >= Total(w, i)
            /\ w[ret.n + 1] > 0

\* choose on weights 0, 2, 1 drew 2 and returned the last index, after
\* passing over the weight of 0
C25_Witness ==
    /\ op = "choose"
    /\ weightsOf(arg) = <<0, 2, 1>>
    /\ draw = Num(2)
    /\ ret = Num(2)

\* C26: choose raises RangeError, and returns no index, whenever the total
\* weight is not positive: when every weight is 0 or there is no weight.
C26_ChooseRaisesWithoutWeight ==
    (op = "choose" /\ Total(weightsOf(arg), Len(arg.e)) <= 0) =>
        ret = Throw("RangeError")

\* choose raised on two weights of 0
C26_Witness ==
    /\ op = "choose"
    /\ weightsOf(arg) = <<0, 0>>
    /\ ret = Throw("RangeError")

-----------------------------------------------------------------------------
\* C27: choose draws from the whole of [0, T) also when the weights are not
\* integers, so that, whenever T > 0, every index with a positive weight is
\* returned for some draw.  (The weights are in halves.)
C27_FractionalWeightsAllReachable ==
    LET w2 == weightsOf(arg)
    IN  (op = "choose" /\ Total(w2, Len(w2)) > 0) =>
            \A i \in 1..Len(w2) :
                w2[i] > 0 =>
                    \E v \in randomIntOfHalves(chooseMax(w2)) :
                        chooseOfHalves(w2, v) = Num(i - 1)

-----------------------------------------------------------------------------
\* C28: remove, purge and delete called with an item that matches no entry
\* leave the items, their order, the counts and the length as they were, and
\* return instead of raising.
C28_MissLeavesStateAndReturns ==
    (op \in {"remove", "purge", "delete"} /\ Matches(pItems, arg) = {}) =>
        /\ items = pItems
        /\ counts = pCounts
        /\ length = pLength
        /\ Returned

-----------------------------------------------------------------------------
\* C29: in the variant with the autocalibrate option, after the same add,
\* remove and purge calls and for the same value of Math.random(), get()
\* returns the same item whether autocalibrate is false or true.
C29_AutocalibrateIsIrrelevant ==
    (op = "get" /\ ret.t = "arr") => ret.e[1].val = ret.e[2].val

-----------------------------------------------------------------------------
\* the positions whose stored item the default predicate accepts for x, the
\* predicate being called as (queried item, stored item)
Accepts(its, x) == {i \in 1..Len(its) : equal(x, its[i]) = "true"}

\* C30: every lookup goes through the configured predicate, called as
\* comparison(queried item, stored item): indexOf returns the smallest index
\* whose stored item is accepted, or -1 when none is; has(item) is true
\* exactly when indexOf(item) >= 0; countOf, add, remove, purge and delete
\* act on the entry at that index.
C30_LookupsUseThePredicate ==
    LET A == Accepts(pItems, arg)
    IN  Returned =>
            /\ op = "indexOf" =>
                   ret = IF A = {} THEN Num(-1) ELSE Num(First(A) - 1)
            /\ op = "has" => ret = Bool(indexOf(pItems, arg).n >= 0)
            /\ op = "countOf" =>
                   ret = IF A = {} THEN Num(0) ELSE Num(pCounts[First(A)])
            /\ (op \in {"add", "remove", "purge"} /\ A # {}) =>
                   /\ items = pItems
                   /\ \A j \in 1..Len(pCounts) : j # First(A) => counts[j] = pCounts[j]
            /\ (op = "add" /\ A = {}) => items = Append(pItems, arg)
            /\ (op \in {"remove", "purge", "delete"} /\ A = {}) =>
                   items = pItems /\ counts = pCounts
            /\ (op = "delete" /\ A # {}) =>
                   /\ items = splice(pItems, First(A) - 1)
                   /\ counts = splice(pCounts, First(A) - 1)

\* indexOf({}) finds the stored [] at index 1: the predicate accepts (query,
\* stored) and would reject (stored, query)
C30_Witness ==
    /\ op = "indexOf"
    /\ ret = Num(1)
    /\ Len(pItems) >= 2
    /\ equal(arg, pItems[2]) = "true"
    /\ equal(pItems[2], arg) = "false"

-----------------------------------------------------------------------------
\* C31: roulette(items, weights) returns the element of items at the index
\* choose selects for the weights, which are 1 for every item when weights is
\* missing or empty; when choose raises, so does roulette.  When weights is
\* non-empty and its length differs from that of items, roulette raises a
\* RangeError and nothing is drawn.
C31_RouletteReturnsChosenItem ==
    op = "roulette" =>
        LET its == elemsOf(arg.e[1].val)
            given == arg.e[2].val
            n == IF given.t = "undef" THEN 0 ELSE Len(given.e)
            w == IF n = 0 THEN [i \in 1..Len(its) |-> 1] ELSE weightsOf(given)
        IN  IF n # 0 /\ n # Len(its)
            THEN ret = Throw("RangeError") /\ draw = Undef
            ELSE /\ draw \in randomInt(chooseMax(w))
                 /\ LET index == choose(w, draw)
                    IN  IF IsThrow(index) THEN ret = index
                        ELSE ret = its[index.n + 1]

\* roulette(['a', 'b', 'c'], [0, 2, 1]) drew 2 and returned 'c'
C31_Witness ==
    /\ op = "roulette"
    /\ Len(arg.e[1].val.e) = 3
    /\ arg.e[2].val = Arr(<<Num(0), Num(2), Num(1)>>)
    /\ draw = Num(2)
    /\ ret = Str("c")

-----------------------------------------------------------------------------
\* C32: add(item) after a remove(item) or purge(item) that left the item's
\* count at 0 reuses the entry: the items are unchanged, nothing is appended
\* and the count at the item's index becomes 1.  add(item) after a
\* delete(item) that took the item's entry out appends the item with count 1
\* at the end.
C32_ReaddReusesOrAppends ==
    [][(/\ op \in {"remove", "purge", "delete"} /\ Returned
        /\ Matches(pItems, arg) # {}
        /\ op' = "add" /\ arg' = arg)
       => LET i == First(Matches(pItems, arg))
          IN  /\ (op \in {"remove", "purge"} /\ counts[i] = 0) =>
                     /\ items' = items
                     /\ counts' = [counts EXCEPT ![i] = 1]
              /\ op = "delete" =>
                     /\ items' = Append(items, arg)
                     /\ counts' = Append(counts, 1)]_vars

-----------------------------------------------------------------------------
\* C33: the default equality is reflexive and symmetric over null, undefined,
\* primitives, sequences and keyed structures: equal(a, a) is true, and
\* equal(a, b) gives what equal(b, a) gives, for every pair of values.
C33_EqualReflexiveAndSymmetric ==
    op = "equal" =>
        /\ EqA = EqB => ret = Bool(TRUE)
        /\ equal(EqA, EqB) = equal(EqB, EqA)

-----------------------------------------------------------------------------
\* C34: the item array and the count array stay parallel.  In every state
\* reachable by add, remove, purge and delete they have the same length, and
\* every call keeps each count at the position of its item: it leaves the
\* items alone and changes at most one count, or appends the new item to one
\* array and its count 1 to the other, or takes the same position out of
\* both.
C34_ArraysStayParallel ==
    /\ Len(items) = Len(counts)
    /\ \/ /\ items = pItems
          /\ Len(counts) = Len(pCounts)
          /\ Cardinality({i \in 1..Len(counts) : counts[i] # pCounts[i]}) <= 1
       \/ /\ op = "add"
          /\ items = Append(pItems, arg)
          /\ counts = Append(pCounts, 1)
       \/ /\ op = "delete"
          /\ \E i \in 1..Len(pItems) :
                 /\ items = splice(pItems, i - 1)
                 /\ counts = splice(pCounts, i - 1)

\* delete took the second of three entries out of both arrays
C34_Witness ==
    /\ op = "delete"
    /\ ret = Num(1)
    /\ pCounts = <<2, 0, 1>>
    /\ counts = <<2, 1>>
    /\ items = <<pItems[1], pItems[3]>>

-----------------------------------------------------------------------------
\* C35: has, indexOf, at, countOf, countAt and get leave the collection as it
\* was: the items and their order, the counts and the length are the same
\* after the call as before it, for every argument, every exponent and every
\* value drawn, whether the call returns or raises.
C35_ReadsLeaveCollection ==
    op \in {"has", "indexOf", "at", "countOf", "countAt", "get"} =>
        /\ items = pItems
        /\ counts = pCounts
        /\ length = pLength

\* get(2) on three entries, one of them with count 0 and one with count 2,
\* returned the third entry and changed nothing
C35_Witness ==
    /\ op = "get" /\ arg = Num(2)
    /\ pCounts = <<1, 0, 2>>
    /\ ret = pItems[3]
    /\ items = pItems /\ counts = pCounts /\ length = pLength

-----------------------------------------------------------------------------
\* the values randomInt can produce in get(weight) on its and cts
DrawsOf(its, cts, weight) ==
    randomInt(rouletteMax(activeItems(its, cts), activeWeights(cts, weight)))

\* C36: entries with count 0 are invisible to sampling.  After purge(item)
\* has set the count of the item's entry to 0, and provided some entry has a
\* count > 0, get draws from the same values and returns, for every exponent
\* and every value drawn, the item it returns on the collection from which
\* delete(item) has taken that entry out instead.
C36_ZeroCountInvisibleToGet ==
    [][(/\ op = "purge" /\ Returned /\ Matches(pItems, arg) # {}
        /\ \E j \in 1..Len(counts) : counts[j] > 0
        /\ op' = "get")
       => LET idx == First(Matches(pItems, arg)) - 1
              deleted == splice(pItems, idx)
              remaining == splice(pCounts, idx)
          IN  /\ DrawsOf(items, counts, arg'.n) = DrawsOf(deleted, remaining, arg'.n)
              /\ ret' = get(deleted, remaining, arg'.n, draw')]_vars

\* get(0) after a purge, on the counts 2, 0 and 1: the value 1 was drawn and
\* the third entry returned, the entry with count 0 having no weight
C36_Witness ==
    /\ op = "get" /\ arg = Num(0)
    /\ counts = <<2, 0, 1>>
    /\ draw = Num(1)
    /\ ret = items[3]

-----------------------------------------------------------------------------
\* C37: in the UMD class of src/roulette.js, remove(item) on a present item
\* lowers its tally by one; the call that brings the tally to 0 removes the
\* item, so that indexOf(item) returns -1 after it; and no tally becomes
\* negative.
C37_UmdRemoveDropsAtZero ==
    [][(op' = "remove" /\ umdIndexOf(roulettes[1], arg') >= 0)
       => LET i == umdIndexOf(roulettes[1], arg') + 1
              after == roulettes'[1]
          IN  /\ after.tally[i] = roulettes[1].tally[i] - 1
              /\ after.tally[i] = 0 => umdIndexOf(after, arg') = -1
              /\ \A j \in 1..Len(after.tally) : after.tally[j] >= 0]_vars

-----------------------------------------------------------------------------
\* C38: getopt(opt, opts, def) returns def whenever opts is missing or does
\* not contain opt, for every default def, the falsy ones (0, false, the empty
\* string, null) included; when opts contains opt it returns opts[opt], as a
\* boolean (whether the value is truthy) when the bool flag is set.
C38_GetoptReturnsDefaultOrOption ==
    op = "getopt" =>
        LET opt == arg.e[1].val.s
            opts == arg.e[2].val
            def == arg.e[3].val
            bool == arg.e[4].val.n = 1
        IN  IF opts.t \in {"undef", "null"} \/ opt \notin Keys(opts)
            THEN ret = def
            ELSE IF bool
                 THEN ret = Bool(ValueAt(opts, opt) \notin
                              {Undef, Null, Num(0), Bool(FALSE), Str("")})
                 ELSE ret = ValueAt(opts, opt)

-----------------------------------------------------------------------------
\* C39: hash is consistent with the default equality: for every pair of
\* values a and b (numbers, strings, sequences, keyed structures) that hash
\* returns a string for, hash(a) = hash(b) whenever equal(a, b) is true.
C39_HashConsistentWithEqual ==
    (/\ op = "hash"
     /\ ~IsThrow(ret.e[1].val) /\ ~IsThrow(ret.e[2].val)
     /\ equal(EqA, EqB) = "true")
    => ret.e[1].val = ret.e[2].val

====
